---- MODULE Spec2Model ----
(***************************************************************************)
(* Model of the index engine of sihBackend: computeIndices in its two      *)
(* variants (utils/calculateIndices.js, fixed 4-metal formula and          *)
(* threshold-normalised formula).                                          *)
(*                                                                         *)
(* JavaScript numbers are modelled as exact rationals n/d (d > 0, reduced) *)
(* extended with NaN, +Infinity and -Infinity, with the IEEE-754 rules for *)
(* the special values.  Binary rounding error of doubles is not modelled.  *)
(* Strings are sequences of one-character strings, so that Number(string)  *)
(* and Number.prototype.toFixed are modelled by what they do to the text.  *)
(***************************************************************************)
EXTENDS Integers, Sequences, FiniteSets, TLC

VARIABLES sample, result, variant, pc

\* the module-level THRESHOLDS object of utils/calculateIndices.js
VARIABLE thresholds

\* a bulk of rows handed to the engine one by one, in any order
VARIABLES bulkRows, bulkOut, bulkAlone

\* one row of an uploaded CSV file and the sampleData built from it
VARIABLES csvRow, rowData

\* the samples collection, the next _id, the POST /api/upload request in
\* progress, the last response sent, and the PUT requests in progress
VARIABLES store, nextOid, upload, resp, puts

engineVars == <<sample, result, variant, pc>>
bulkVars == <<bulkRows, bulkOut, bulkAlone>>
rowVars == <<csvRow, rowData>>
serverVars == <<store, nextOid, upload, resp, puts>>
vars == <<sample, result, variant, pc, thresholds, bulkRows, bulkOut, bulkAlone,
          csvRow, rowData, store, nextOid, upload, resp, puts>>

-----------------------------------------------------------------------------
(* Numbers *)

Abs(i) == IF i < 0 THEN -i ELSE i

RECURSIVE Gcd(_, _)
Gcd(a, b) == IF b = 0 THEN a ELSE Gcd(b, a % b)

\* the rational n/d, reduced, d > 0
Fin(n, d) ==
  LET g == Gcd(Abs(n), Abs(d))
      s == IF d < 0 THEN -1 ELSE 1
  IN [k |-> "fin", n |-> (s * n) \div g, d |-> (s * d) \div g]

NaN == [k |-> "nan", n |-> 0, d |-> 1]
PosInf == [k |-> "inf", n |-> 1, d |-> 1]
NegInf == [k |-> "inf", n |-> -1, d |-> 1]
Zero == Fin(0, 1)
Int2Num(i) == Fin(i, 1)

IsNaN(x) == x.k = "nan"
IsFin(x) == x.k = "fin"
IsInf(x) == x.k = "inf"
Sign(x) == IF x.n > 0 THEN 1 ELSE IF x.n < 0 THEN -1 ELSE 0
Inf(s) == IF s > 0 THEN PosInf ELSE NegInf

\* a + b
NumAdd(a, b) ==
  IF IsNaN(a) \/ IsNaN(b) THEN NaN
  ELSE IF IsInf(a) /\ IsInf(b) THEN (IF a.n = b.n THEN a ELSE NaN)
  ELSE IF IsInf(a) THEN a
  ELSE IF IsInf(b) THEN b
  ELSE LET g == Gcd(a.d, b.d)
           l == (a.d \div g) * b.d
       IN Fin(a.n * (l \div a.d) + b.n * (l \div b.d), l)

\* a * b
NumMul(a, b) ==
  IF IsNaN(a) \/ IsNaN(b) THEN NaN
  ELSE IF IsInf(a) \/ IsInf(b)
       THEN (IF Sign(a) = 0 \/ Sign(b) = 0 THEN NaN ELSE Inf(Sign(a) * Sign(b)))
  ELSE LET g1 == Gcd(Abs(a.n), b.d)
           g2 == Gcd(Abs(b.n), a.d)
       IN Fin((a.n \div g1) * (b.n \div g2), (a.d \div g2) * (b.d \div g1))

\* a / b
NumDiv(a, b) ==
  IF IsNaN(a) \/ IsNaN(b) THEN NaN
  ELSE IF IsInf(a) THEN (IF IsInf(b) THEN NaN
                         ELSE Inf(Sign(a) * (IF Sign(b) < 0 THEN -1 ELSE 1)))
  ELSE IF IsInf(b) THEN Zero
  ELSE IF b.n = 0 THEN (IF a.n = 0 THEN NaN ELSE Inf(Sign(a)))
  ELSE NumMul(a, Fin(b.d, b.n))

\* a > b ; false whenever an operand is NaN
NumGt(a, b) ==
  IF IsNaN(a) \/ IsNaN(b) THEN FALSE
  ELSE IF IsInf(a) THEN a.n = 1 /\ ~(IsInf(b) /\ b.n = 1)
  ELSE IF IsInf(b) THEN b.n = -1
  ELSE LET g == Gcd(a.d, b.d)
       IN a.n * (b.d \div g) > b.n * (a.d \div g)

\* a < b
NumLt(a, b) == NumGt(b, a)

\* JavaScript truthiness of a number: 0 and NaN are falsy
Truthy(x) == ~IsNaN(x) /\ ~(IsFin(x) /\ x.n = 0)

\* x || dflt for a number x
OrElse(x, dflt) == IF Truthy(x) THEN x ELSE dflt

-----------------------------------------------------------------------------
(* Strings and conversions *)

Digits == <<"0", "1", "2", "3", "4", "5", "6", "7", "8", "9">>
DigitChars == {Digits[i] : i \in 1..10}
DigitVal(c) == (CHOOSE i \in 1..10 : Digits[i] = c) - 1

RECURSIVE Pow10(_)
Pow10(e) == IF e = 0 THEN 1 ELSE 10 * Pow10(e - 1)

RECURSIVE DigitsToInt(_)
DigitsToInt(s) ==
  IF s = <<>> THEN 0 ELSE 10 * DigitsToInt(SubSeq(s, 1, Len(s) - 1)) + DigitVal(s[Len(s)])

RECURSIVE IntToDigits(_)
IntToDigits(i) ==
  IF i < 10 THEN <<Digits[i + 1]>> ELSE Append(IntToDigits(i \div 10), Digits[(i % 10) + 1])

RECURSIVE PadLeft(_, _)
PadLeft(s, len) == IF Len(s) >= len THEN s ELSE PadLeft(<<"0">> \o s, len)

AllDigits(s) == \A i \in 1..Len(s) : s[i] \in DigitChars

InfinityStr == <<"I", "n", "f", "i", "n", "i", "t", "y">>
NaNStr == <<"N", "a", "N">>

\* StrUnsignedDecimalLiteral without exponent: digits, digits. , digits.digits , .digits
UnsignedToNumber(s) ==
  IF s = InfinityStr THEN PosInf
  ELSE LET dots == {i \in 1..Len(s) : s[i] = "."}
           p    == IF dots = {} THEN Len(s) + 1 ELSE CHOOSE i \in dots : \A j \in dots : i <= j
           ip   == SubSeq(s, 1, p - 1)
           fp   == SubSeq(s, p + 1, Len(s))
       IN IF AllDigits(ip) /\ AllDigits(fp) /\ Len(ip) + Len(fp) > 0
          THEN Fin(DigitsToInt(ip) * Pow10(Len(fp)) + DigitsToInt(fp), Pow10(Len(fp)))
          ELSE NaN

\* Number(string): the empty string is 0, a decimal literal its value, anything else NaN
StringToNumber(s) ==
  IF s = <<>> THEN Zero
  ELSE IF Head(s) = "-" THEN NumMul(Int2Num(-1), UnsignedToNumber(Tail(s)))
  ELSE IF Head(s) = "+" THEN UnsignedToNumber(Tail(s))
  ELSE UnsignedToNumber(s)

\* x.toFixed(3)
ToFixed3(x) ==
  IF IsNaN(x) THEN NaNStr
  ELSE IF IsInf(x) THEN (IF x.n > 0 THEN InfinityStr ELSE <<"-">> \o InfinityStr)
  ELSE LET neg == x.n < 0
           a   == Abs(x.n)
           n   == (2 * a * 1000 + x.d) \div (2 * x.d)
           m   == PadLeft(IntToDigits(n), 4)
           txt == SubSeq(m, 1, Len(m) - 3) \o <<".">> \o SubSeq(m, Len(m) - 2, Len(m))
       IN IF neg THEN <<"-">> \o txt ELSE txt

-----------------------------------------------------------------------------
(* JavaScript values held by the fields of a sample *)

JSUndefined == [t |-> "undefined", num |-> Zero, str |-> <<>>]
JSNull == [t |-> "null", num |-> Zero, str |-> <<>>]
JSFunction == [t |-> "function", num |-> Zero, str |-> <<>>]
JSBool(b) == [t |-> "boolean", num |-> IF b THEN Int2Num(1) ELSE Zero, str |-> <<>>]
JSNum(x) == [t |-> "number", num |-> x, str |-> <<>>]
JSStr(s) == [t |-> "string", num |-> Zero, str |-> s]

\* Number(v)
ToNumber(v) ==
  CASE v.t = "number" -> v.num
    [] v.t = "string" -> StringToNumber(v.str)
    [] v.t = "boolean" -> v.num
    [] v.t = "null" -> Zero
    [] OTHER -> NaN

\* obj[key] on a plain object given as a function from its own keys
GetProp(obj, key) == IF key \in DOMAIN obj THEN obj[key] ELSE JSUndefined

-----------------------------------------------------------------------------
(* The sample handed to computeIndices.  given = FALSE is the call without *)
(* an argument; hasMetals / hasWater tell whether the property exists.     *)

EmptyObject == [x \in {} |-> JSUndefined]

MkSample(g, hm, m, hw, w) ==
  [given |-> g, hasMetals |-> hm, metals |-> m, hasWater |-> hw, waterQuality |-> w]

\* sample.metals || {}   (with the default parameter sample = {})
MetalsOf(s) == IF s.given /\ s.hasMetals THEN s.metals ELSE EmptyObject

\* sample.waterQuality || {}
WaterOf(s) == IF s.given /\ s.hasWater THEN s.waterQuality ELSE EmptyObject

\* mutant: Number(obj[key]) without the || dflt
Coerce_NoDefault(obj, key, dflt) == ToNumber(GetProp(obj, key))

\* Number(obj[key]) || dflt
Coerce(obj, key, dflt) == OrElse(ToNumber(GetProp(obj, key)), dflt)

\* Number(x.toFixed(3))
Fixed3(x) == StringToNumber(ToFixed3(x))

-----------------------------------------------------------------------------
(* Variant A: fixed 4-metal formula *)

categoryA(hpi, mi, cd) ==
  IF NumGt(hpi, Int2Num(100)) \/ NumGt(mi, Int2Num(20)) \/ NumGt(cd, Int2Num(10))
  THEN "unsafe"
  ELSE IF NumGt(hpi, Int2Num(50)) \/ NumGt(mi, Int2Num(10)) \/ NumGt(cd, Int2Num(5))
       THEN "moderate"
       ELSE "safe"

\* mutant: cadmium subtracted in mi
computeIndicesA_MiMinus(s) ==
  LET metals   == MetalsOf(s)
      lead     == Coerce(metals, "lead", Zero)
      cadmium  == Coerce(metals, "cadmium", Zero)
      arsenic  == Coerce(metals, "arsenic", Zero)
      chromium == Coerce(metals, "chromium", Zero)
      hpi == Fixed3(NumMul(NumAdd(NumAdd(NumAdd(lead, cadmium), arsenic), chromium),
                           Int2Num(100)))
      mi  == Fixed3(NumMul(NumAdd(lead, NumMul(Int2Num(-1), cadmium)), Int2Num(10)))
      cd  == Fixed3(NumMul(arsenic, Int2Num(50)))
  IN [hpi |-> hpi, mi |-> mi, cd |-> cd, category |-> categoryA(hpi, mi, cd)]

\* mutant: chromium left out of hpi
computeIndicesA_DropChromium(s) ==
  LET metals   == MetalsOf(s)
      lead     == Coerce(metals, "lead", Zero)
      cadmium  == Coerce(metals, "cadmium", Zero)
      arsenic  == Coerce(metals, "arsenic", Zero)
      hpi == Fixed3(NumMul(NumAdd(NumAdd(lead, cadmium), arsenic), Int2Num(100)))
      mi  == Fixed3(NumMul(NumAdd(lead, cadmium), Int2Num(10)))
      cd  == Fixed3(NumMul(arsenic, Int2Num(50)))
  IN [hpi |-> hpi, mi |-> mi, cd |-> cd, category |-> categoryA(hpi, mi, cd)]

computeIndicesA(s) ==
  LET metals   == MetalsOf(s)
      lead     == Coerce(metals, "lead", Zero)
      cadmium  == Coerce(metals, "cadmium", Zero)
      arsenic  == Coerce(metals, "arsenic", Zero)
      chromium == Coerce(metals, "chromium", Zero)
      hpi == Fixed3(NumMul(NumAdd(NumAdd(NumAdd(lead, cadmium), arsenic), chromium),
                           Int2Num(100)))
      mi  == Fixed3(NumMul(NumAdd(lead, cadmium), Int2Num(10)))
      cd  == Fixed3(NumMul(arsenic, Int2Num(50)))
  IN [hpi |-> hpi, mi |-> mi, cd |-> cd, category |-> categoryA(hpi, mi, cd)]

-----------------------------------------------------------------------------
(* Variant B: threshold-normalised formula *)

\* the own properties of the THRESHOLDS object literal
ThresholdsLiteral ==
  [lead     |-> Fin(1, 100),
   cadmium  |-> Fin(3, 1000),
   arsenic  |-> Fin(1, 100),
   chromium |-> Fin(5, 100),
   mercury  |-> Fin(1, 1000),
   uranium  |-> Fin(3, 100),
   iron     |-> Fin(3, 10),
   fluoride |-> Fin(1, 1),
   nitrate  |-> Fin(45, 1),
   pH_min   |-> Fin(65, 10),
   pH_max   |-> Fin(85, 10),
   tds      |-> Fin(500, 1)]

\* the table as computeIndices finds it when it is called
THRESHOLDS == thresholds

\* what an object literal inherits from Object.prototype
ObjectPrototypeKeys ==
  {"constructor", "toString", "toLocaleString", "valueOf", "hasOwnProperty",
   "isPrototypeOf", "propertyIsEnumerable", "__proto__"}

\* THRESHOLDS[m]: an own property, else an inherited one, else undefined
ThresholdsGet(m) ==
  IF m \in DOMAIN THRESHOLDS THEN JSNum(THRESHOLDS[m])
  ELSE IF m \in ObjectPrototypeKeys THEN JSFunction
  ELSE JSUndefined

\* Object.keys(metals).filter(m => metals[m] !== undefined && THRESHOLDS[m] !== undefined)
metalKeys(metals) ==
  {m \in DOMAIN metals : metals[m] # JSUndefined /\ ThresholdsGet(m) # JSUndefined}

\* (Number(metals[m]) || 0) / THRESHOLDS[m]
Ratio(metals, m) == NumDiv(Coerce(metals, m, Zero), ToNumber(ThresholdsGet(m)))

RECURSIVE hpiSum(_, _)
hpiSum(metals, keys) ==
  IF keys = {} THEN Zero
  ELSE LET m == CHOOSE x \in keys : TRUE
       IN NumAdd(hpiSum(metals, keys \ {m}), NumMul(Ratio(metals, m), Int2Num(100)))

RECURSIVE miSum(_, _)
miSum(metals, keys) ==
  IF keys = {} THEN Zero
  ELSE LET m == CHOOSE x \in keys : TRUE
       IN NumAdd(miSum(metals, keys \ {m}), Coerce(metals, m, Zero))

RECURSIVE cdSum(_, _)
cdSum(metals, keys) ==
  IF keys = {} THEN Zero
  ELSE LET m == CHOOSE x \in keys : TRUE
       IN NumAdd(cdSum(metals, keys \ {m}), Ratio(metals, m))

\* mutant: >= in place of >
exceedsMetal_Ge(metals) ==
  \E m \in metalKeys(metals) : ~NumLt(Coerce(metals, m, Zero), ToNumber(ThresholdsGet(m)))

\* metalKeys.some(m => (Number(metals[m]) || 0) > THRESHOLDS[m])
exceedsMetal(metals) ==
  \E m \in metalKeys(metals) : NumGt(Coerce(metals, m, Zero), ToNumber(ThresholdsGet(m)))

\* Number(waterQuality.pH) || 7
pHOf(w) == Coerce(w, "pH", Int2Num(7))

\* mutant: the pH > pH_max test left out
exceedsOther_NoUpperpH(w) ==
  LET pH       == pHOf(w)
      tds      == Coerce(w, "tds", Zero)
      fluoride == Coerce(w, "fluoride", Zero)
      nitrate  == Coerce(w, "nitrate", Zero)
  IN \/ NumGt(fluoride, NumMul(THRESHOLDS.fluoride, Fin(3, 2)))
     \/ NumGt(nitrate, THRESHOLDS.nitrate)
     \/ NumGt(tds, NumMul(THRESHOLDS.tds, Int2Num(2)))
     \/ NumLt(pH, THRESHOLDS.pH_min)

exceedsOther(w) ==
  LET pH       == pHOf(w)
      tds      == Coerce(w, "tds", Zero)
      fluoride == Coerce(w, "fluoride", Zero)
      nitrate  == Coerce(w, "nitrate", Zero)
  IN \/ NumGt(fluoride, NumMul(THRESHOLDS.fluoride, Fin(3, 2)))
     \/ NumGt(nitrate, THRESHOLDS.nitrate)
     \/ NumGt(tds, NumMul(THRESHOLDS.tds, Int2Num(2)))
     \/ NumLt(pH, THRESHOLDS.pH_min)
     \/ NumGt(pH, THRESHOLDS.pH_max)

\* mutant: the moderate test made before the unsafe test
categoryB_ModerateFirst(hpi, mi, cd, exM, exO) ==
  IF NumGt(hpi, Int2Num(50)) \/ NumGt(mi, Fin(1, 2)) \/ NumGt(cd, Fin(3, 2))
  THEN "moderate"
  ELSE IF NumGt(hpi, Int2Num(100)) \/ NumGt(mi, Int2Num(1)) \/ NumGt(cd, Int2Num(3))
          \/ exM \/ exO
       THEN "unsafe"
       ELSE "safe"

categoryB(hpi, mi, cd, exM, exO) ==
  IF NumGt(hpi, Int2Num(100)) \/ NumGt(mi, Int2Num(1)) \/ NumGt(cd, Int2Num(3)) \/ exM \/ exO
  THEN "unsafe"
  ELSE IF NumGt(hpi, Int2Num(50)) \/ NumGt(mi, Fin(1, 2)) \/ NumGt(cd, Fin(3, 2))
       THEN "moderate"
       ELSE "safe"

computeIndicesB(s) ==
  LET metals == MetalsOf(s)
      w      == WaterOf(s)
      keys   == metalKeys(metals)
      len    == Cardinality(keys)
      hpi == IF len # 0 THEN Fixed3(hpiSum(metals, keys)) ELSE Zero
      mi  == IF len # 0
             THEN Fixed3(NumMul(NumDiv(miSum(metals, keys), Int2Num(len)), Int2Num(10)))
             ELSE Zero
      cd  == IF len # 0 THEN Fixed3(cdSum(metals, keys)) ELSE Zero
  IN [hpi |-> hpi, mi |-> mi, cd |-> cd,
      category |-> categoryB(hpi, mi, cd, exceedsMetal(metals), exceedsOther(w))]

-----------------------------------------------------------------------------
(* Inputs: every sample with at most MaxFields populated fields, each      *)
(* field holding one of the values listed for it, and the named samples.   *)

MaxFields == 2

StrAbc == JSStr(<<"a", "b", "c">>)

MetalInputs ==
  [lead     |-> {JSStr(<<"0", ".", "0", "1">>), JSNum(Fin(101, 10000)), JSNum(Fin(3, 5)),
                 JSNum(Fin(5, 2)), JSNum(Fin(3, 2)), JSNum(PosInf)},
   cadmium  |-> {JSNum(Fin(3, 1000)), JSNum(Fin(2, 1000)), StrAbc, JSNum(NegInf)},
   arsenic  |-> {JSNum(Fin(15, 100)), JSNum(Fin(25, 100)), JSNum(Fin(1, 100000)),
                 JSUndefined, JSNum(Zero)},
   chromium |-> {JSNum(Fin(-24, 10)), JSNum(Fin(-14, 10)), JSNum(Fin(5, 100)), JSNull},
   iron     |-> {JSNum(Fin(3, 10)), JSNum(Fin(6, 100)), JSNum(Zero)},
   fluoride |-> {JSNum(Fin(1, 2))},
   zinc     |-> {JSNum(Int2Num(5)), StrAbc},
   toString |-> {JSNum(Int2Num(1))}]

WaterInputs ==
  [pH       |-> {JSNum(Zero), JSNum(Fin(65, 10)), JSNum(Fin(85, 10)), JSNum(Fin(64, 10)),
                 JSStr(<<"9", ".", "0">>), StrAbc, JSNum(Int2Num(14))},
   tds      |-> {JSNum(Int2Num(1000)), JSNum(Int2Num(1001)), StrAbc},
   fluoride |-> {JSNum(Fin(15, 10)), JSNum(Fin(16, 10))},
   nitrate  |-> {JSNum(Int2Num(45)), JSStr(<<"4", "6">>)}]

Field(o, k, v) == [obj |-> o, key |-> k, val |-> v]

FieldChoices ==
  UNION {{Field("metals", k, v) : v \in MetalInputs[k]} : k \in DOMAIN MetalInputs}
  \cup UNION {{Field("waterQuality", k, v) : v \in WaterInputs[k]} : k \in DOMAIN WaterInputs}

Slot(a) == <<a.obj, a.key>>

RECURSIVE FieldSets(_)
FieldSets(n) ==
  IF n = 0 THEN {{}}
  ELSE LET prev == FieldSets(n - 1)
       IN prev \cup {fa[1] \cup {fa[2]} :
                       fa \in {x \in prev \X FieldChoices :
                                 \A b \in x[1] : Slot(b) # Slot(x[2])}}

ObjectOf(F, o) ==
  [k \in {a.key : a \in {b \in F : b.obj = o}} |->
     (CHOOSE a \in F : a.obj = o /\ a.key = k).val]

SampleOf(F) ==
  MkSample(TRUE,
           \E a \in F : a.obj = "metals", ObjectOf(F, "metals"),
           \E a \in F : a.obj = "waterQuality", ObjectOf(F, "waterQuality"))

\* computeIndices()
NoArgument == MkSample(FALSE, FALSE, EmptyObject, FALSE, EmptyObject)

\* computeIndices({metals: {}, waterQuality: {}})
EmptyMaps == MkSample(TRUE, TRUE, EmptyObject, TRUE, EmptyObject)

\* {metals: {lead: 0.02, cadmium: 0.001, arsenic: 0.005, chromium: 0.01}}
ScenarioA ==
  MkSample(TRUE, TRUE,
           [lead |-> JSNum(Fin(2, 100)), cadmium |-> JSNum(Fin(1, 1000)),
            arsenic |-> JSNum(Fin(5, 1000)), chromium |-> JSNum(Fin(1, 100))],
           FALSE, EmptyObject)

\* {metals: {lead: 0.02}}
ScenarioB == MkSample(TRUE, TRUE, [lead |-> JSNum(Fin(2, 100))], FALSE, EmptyObject)

Samples ==
  {SampleOf(F) : F \in FieldSets(MaxFields)} \cup {NoArgument, EmptyMaps, ScenarioA, ScenarioB}

-----------------------------------------------------------------------------
(* The state machine: one sample, and one call of either variant on it *)

NoResult == [hpi |-> Zero, mi |-> Zero, cd |-> Zero, category |-> "none"]

NoData == [metals |-> EmptyObject, waterQuality |-> EmptyObject,
           indices |-> EmptyObject, category |-> "none"]

\* no CSV row at hand
RowIdle ==
  /\ csvRow = EmptyObject
  /\ rowData = NoData

\* POST /api/upload not yet requested
UploadIdle ==
  [pc |-> "idle", hasFile |-> FALSE, jsonArray |-> <<>>, index |-> 0,
   insertedCount |-> 0, before |-> {}, interleaved |-> FALSE, status |-> 0]

NoResponse ==
  [route |-> "none", path |-> <<>>, query |-> [state |-> "", district |-> ""],
   status |-> 0, body |-> <<>>, inserted |-> 0]

NoRecord ==
  [oid |-> 0, sampleId |-> "", state |-> "", district |-> "",
   metals |-> EmptyObject, waterQuality |-> EmptyObject,
   indices |-> EmptyObject, category |-> "none"]

NoUpdates == [hasMetals |-> FALSE, metals |-> EmptyObject,
              hasWater |-> FALSE, waterQuality |-> EmptyObject]

PutIdle == [pc |-> "idle", sampleId |-> "", updates |-> NoUpdates,
            existingSample |-> NoRecord, status |-> 0]

Clients == {1, 2}

\* the server started on an empty collection, no request received
ServerIdle ==
  /\ store = {}
  /\ nextOid = 1
  /\ upload = UploadIdle
  /\ resp = NoResponse
  /\ puts = [c \in Clients |-> PutIdle]

\* no bulk in progress
BulkIdle ==
  /\ bulkRows = <<>>
  /\ bulkOut = <<>>
  /\ bulkAlone = <<>>

Init ==
  /\ sample \in Samples
  /\ result = NoResult
  /\ variant = "none"
  /\ pc = "ready"
  /\ thresholds = ThresholdsLiteral
  /\ BulkIdle
  /\ RowIdle
  /\ ServerIdle

CallA ==
  /\ pc = "ready"
  /\ result' = computeIndicesA(sample)
  /\ variant' = "A"
  /\ pc' = "done"
  /\ UNCHANGED <<sample, thresholds, bulkVars, rowVars, serverVars>>

\* mutant: the call stores the coerced lead back into the table
CallB_WritesTable ==
  /\ pc = "ready"
  /\ result' = computeIndicesB(sample)
  /\ variant' = "B"
  /\ pc' = "done"
  /\ thresholds' = [thresholds EXCEPT !.lead = Coerce(MetalsOf(sample), "lead", @)]
  /\ UNCHANGED <<sample, bulkVars, rowVars, serverVars>>

CallB ==
  /\ pc = "ready"
  /\ result' = computeIndicesB(sample)
  /\ variant' = "B"
  /\ pc' = "done"
  /\ UNCHANGED <<sample, thresholds, bulkVars, rowVars, serverVars>>

Next == CallA \/ CallB

Spec == Init /\ [][Next]_vars

DoneA == pc = "done" /\ variant = "A"
DoneB == pc = "done" /\ variant = "B"

-----------------------------------------------------------------------------
(* A bulk of rows: the engine is called once per row, the rows taken in    *)
(* any order, with calls of other callers in between.                      *)

MaxRows == 2

\* {metals: {cadmium: 0.002}}, {metals: {iron: 0.3}}, {waterQuality: {pH: "9.0"}}
BulkSamples ==
  {ScenarioA, ScenarioB, EmptyMaps,
   MkSample(TRUE, TRUE, [cadmium |-> JSNum(Fin(2, 1000))], FALSE, EmptyObject),
   MkSample(TRUE, TRUE, [iron |-> JSNum(Fin(3, 10))], FALSE, EmptyObject),
   MkSample(TRUE, FALSE, EmptyObject, TRUE, [pH |-> JSStr(<<"9", ".", "0">>)])}

EngineIdle ==
  /\ sample = NoArgument
  /\ result = NoResult
  /\ variant = "none"
  /\ pc = "idle"

InitBulk ==
  /\ EngineIdle
  /\ thresholds = ThresholdsLiteral
  /\ BulkIdle
  /\ RowIdle
  /\ ServerIdle

\* the rows arrive; bulkAlone keeps what each row gives when nothing else has run
LoadRows(rows) ==
  /\ bulkRows = <<>>
  /\ bulkRows' = rows
  /\ bulkOut' = [i \in DOMAIN rows |-> NoResult]
  /\ bulkAlone' = [i \in DOMAIN rows |-> computeIndicesB(rows[i])]
  /\ UNCHANGED <<engineVars, thresholds, rowVars, serverVars>>

\* mutant: the call leaves the lead limit of the table overwritten
ProcessRow_WritesTable(i) ==
  /\ bulkOut[i] = NoResult
  /\ bulkOut' = [bulkOut EXCEPT ![i] = computeIndicesB(bulkRows[i])]
  /\ thresholds' = [thresholds EXCEPT !.lead = Coerce(MetalsOf(bulkRows[i]), "lead", @)]
  /\ UNCHANGED <<engineVars, bulkRows, bulkAlone, rowVars, serverVars>>

\* computeIndices(row i), whichever rows were processed before
ProcessRow(i) ==
  /\ bulkOut[i] = NoResult
  /\ bulkOut' = [bulkOut EXCEPT ![i] = computeIndicesB(bulkRows[i])]
  /\ UNCHANGED <<engineVars, thresholds, bulkRows, bulkAlone, rowVars, serverVars>>

\* a call of another caller between two rows
OtherCall(s) ==
  /\ result' = computeIndicesB(s)
  /\ sample' = s
  /\ variant' = "B"
  /\ UNCHANGED <<pc, thresholds, bulkVars, rowVars, serverVars>>

NextBulk ==
  \/ \E n \in 1..MaxRows : \E rows \in [1..n -> BulkSamples] : LoadRows(rows)
  \/ \E i \in DOMAIN bulkRows : ProcessRow(i)
  \/ \E s \in BulkSamples : OtherCall(s)

SpecBulk == InitBulk /\ [][NextBulk]_vars

-----------------------------------------------------------------------------
(* POST /api/upload: one CSV row turned into sampleData.  The columns are  *)
(* named by their unit-free short names: As = "As (ppb)", U = "U (ppb)",   *)
(* Fe = "Fe (ppm)", Pb = "Pb (ppm)", Cd = "Cd (ppm)", Cr = "Cr (ppm)",     *)
(* Hg = "Hg (ppm)", EC = "EC (uS/cm at 25 C)", TH = "Total Hardness        *)
(* (mg/L)", F = "F (mg/L)", NO3 = "NO3 (mg/L)".  A cell is a string or,    *)
(* when the column is missing, undefined.                                  *)

\* the longest prefix of s made of digits
RECURSIVE DigitPrefix(_)
DigitPrefix(s) ==
  IF s # <<>> /\ Head(s) \in DigitChars THEN <<Head(s)>> \o DigitPrefix(Tail(s)) ELSE <<>>

\* parseFloat of an unsigned text: Infinity or the longest decimal prefix
UnsignedParseFloat(s) ==
  IF Len(s) >= Len(InfinityStr) /\ SubSeq(s, 1, Len(InfinityStr)) = InfinityStr THEN PosInf
  ELSE LET ip   == DigitPrefix(s)
           rest == SubSeq(s, Len(ip) + 1, Len(s))
           fp   == IF rest # <<>> /\ Head(rest) = "." THEN DigitPrefix(Tail(rest)) ELSE <<>>
       IN IF Len(ip) + Len(fp) = 0 THEN NaN
          ELSE Fin(DigitsToInt(ip) * Pow10(Len(fp)) + DigitsToInt(fp), Pow10(Len(fp)))

\* parseFloat(v) for a cell v
parseFloat(v) ==
  IF v.t # "string" \/ v.str = <<>> THEN NaN
  ELSE IF Head(v.str) = "-" THEN NumMul(Int2Num(-1), UnsignedParseFloat(Tail(v.str)))
  ELSE IF Head(v.str) = "+" THEN UnsignedParseFloat(Tail(v.str))
  ELSE UnsignedParseFloat(v.str)

Dash == JSStr(<<"-">>)

\* truthiness of a cell: undefined and the empty string are falsy
CellTruthy(v) == v # JSUndefined /\ v # JSStr(<<>>)

\* row[col] && row[col] !== "-" ? parseFloat(row[col]) / divisor : 0
Reading(row, col, divisor) ==
  LET v == GetProp(row, col)
  IN IF CellTruthy(v) /\ v # Dash THEN NumDiv(parseFloat(v), Int2Num(divisor)) ELSE Zero

\* mutant: the reading kept when it is negative
Clamp_KeepsNegative(x) == IF IsNaN(x) THEN Zero ELSE x

\* if (metals[m] < 0 || isNaN(metals[m])) metals[m] = 0
Clamp(x) == IF NumLt(x, Zero) \/ IsNaN(x) THEN Zero ELSE x

\* the metals block of server.js, after the clamping loop
uploadMetals(row) ==
  [arsenic  |-> JSNum(Clamp(Reading(row, "As", 1000))),
   uranium  |-> JSNum(Clamp(Reading(row, "U", 1000))),
   iron     |-> JSNum(Clamp(Reading(row, "Fe", 1))),
   lead     |-> JSNum(Clamp(Reading(row, "Pb", 1))),
   cadmium  |-> JSNum(Clamp(Reading(row, "Cd", 1))),
   chromium |-> JSNum(Clamp(Reading(row, "Cr", 1))),
   mercury  |-> JSNum(Clamp(Reading(row, "Hg", 1)))]

\* the metals block of the earlier server file: lead, cadmium, chromium, mercury set to 0
uploadMetalsEarlier(row) ==
  [arsenic  |-> JSNum(Clamp(Reading(row, "As", 1000))),
   uranium  |-> JSNum(Clamp(Reading(row, "U", 1000))),
   iron     |-> JSNum(Clamp(Reading(row, "Fe", 1))),
   lead     |-> JSNum(Clamp(Zero)),
   cadmium  |-> JSNum(Clamp(Zero)),
   chromium |-> JSNum(Clamp(Zero)),
   mercury  |-> JSNum(Clamp(Zero))]

\* the waterQuality block
uploadWater(row) ==
  [pH       |-> JSNum(OrElse(parseFloat(GetProp(row, "pH")), Int2Num(7))),
   tds      |-> JSNum(OrElse(parseFloat(GetProp(row, "EC")), Zero)),
   hardness |-> JSNum(OrElse(parseFloat(GetProp(row, "TH")), Zero)),
   fluoride |-> JSNum(OrElse(parseFloat(GetProp(row, "F")), Zero)),
   nitrate  |-> JSNum(OrElse(parseFloat(GetProp(row, "NO3")), Zero))]

\* { hpi: indices.hpi, mi: indices.mi, cd: indices.cd }
IndicesOf(r) == [hpi |-> JSNum(r.hpi), mi |-> JSNum(r.mi), cd |-> JSNum(r.cd)]

\* the loop body up to Sample.create: sampleData of one row, indices from { metals }
BuildSampleData(metals, water, r) ==
  [metals |-> metals, waterQuality |-> water, indices |-> IndicesOf(r),
   category |-> r.category]

MaxCells == 2

CellInputs ==
  {Dash, JSStr(<<>>), StrAbc, JSStr(<<"-", "5">>), JSStr(<<"1", "2", ".", "5">>),
   JSStr(<<"3", "a", "b", "c">>), JSStr(<<"-">> \o InfinityStr), JSStr(InfinityStr)}

CellColumns == {"As", "U", "Fe", "Pb", "pH"}

RECURSIVE RowInputs(_)
RowInputs(n) ==
  IF n = 0 THEN {EmptyObject}
  ELSE LET prev == RowInputs(n - 1)
       IN prev \cup
          {[c \in DOMAIN x[1] \cup {x[2]} |-> IF c = x[2] THEN x[3] ELSE x[1][c]] :
             x \in {y \in prev \X CellColumns \X CellInputs : y[2] \notin DOMAIN y[1]}}

InitRow ==
  /\ sample = NoArgument
  /\ result = NoResult
  /\ variant = "none"
  /\ pc = "row"
  /\ thresholds = ThresholdsLiteral
  /\ BulkIdle
  /\ csvRow \in RowInputs(MaxCells)
  /\ rowData = NoData
  /\ ServerIdle

\* server.js: the body of the row loop before Sample.create
BuildRow ==
  /\ pc = "row"
  /\ LET metals == uploadMetals(csvRow)
         arg    == MkSample(TRUE, TRUE, metals, FALSE, EmptyObject)
         r      == computeIndicesB(arg)
     IN /\ sample' = arg
        /\ result' = r
        /\ rowData' = BuildSampleData(metals, uploadWater(csvRow), r)
  /\ variant' = "B"
  /\ pc' = "built"
  /\ UNCHANGED <<thresholds, bulkVars, csvRow, serverVars>>

\* the earlier server file: the body of jsonArray.map
BuildRowEarlier ==
  /\ pc = "row"
  /\ LET metals == uploadMetalsEarlier(csvRow)
         arg    == MkSample(TRUE, TRUE, metals, FALSE, EmptyObject)
         r      == computeIndicesB(arg)
     IN /\ sample' = arg
        /\ result' = r
        /\ rowData' = BuildSampleData(metals, uploadWater(csvRow), r)
  /\ variant' = "B"
  /\ pc' = "builtEarlier"
  /\ UNCHANGED <<thresholds, bulkVars, csvRow, serverVars>>

NextRow == BuildRow \/ BuildRowEarlier

SpecRow == InitRow /\ [][NextRow]_vars

RowBuilt == pc \in {"built", "builtEarlier"}

-----------------------------------------------------------------------------
(* The Sample model: what Mongoose persists of a document under the schema *)
(* (strict mode, Number casting, defaults, the unique index on sampleId).  *)

SchemaMetals == {"lead", "uranimun", "arsenic", "iron", "mercury", "cadmium", "chromium"}
SchemaWater == {"pH", "tds", "hardness", "fluoride", "nitrate"}
SchemaIndices == {"hpi", "mi", "cd"}

\* a value a Number path rejects with a CastError
CastFails(v) ==
  \/ v.t = "function"
  \/ v.t = "number" /\ IsNaN(v.num)
  \/ v.t = "string" /\ v.str # <<>> /\ IsNaN(StringToNumber(v.str))

\* the value a Number path stores
castNumber(v) ==
  CASE v.t = "number" -> v
    [] v.t = "string" -> IF v.str = <<>> THEN JSNull ELSE JSNum(StringToNumber(v.str))
    [] v.t = "boolean" -> JSNum(v.num)
    [] OTHER -> JSNull

\* { type: Number, default: 0 } for every path of a nested object; keys the
\* schema does not name are dropped
CastNested(obj, keys) ==
  [k \in keys |-> IF GetProp(obj, k) = JSUndefined THEN JSNum(Zero) ELSE castNumber(obj[k])]

NestedFails(obj, keys) == \E k \in keys \cap DOMAIN obj : CastFails(obj[k])

\* validation or the unique index rejects the document
SaveFails(data, docs) ==
  \/ NestedFails(data.metals, SchemaMetals)
  \/ NestedFails(data.waterQuality, SchemaWater)
  \/ NestedFails(data.indices, SchemaIndices)
  \/ \E r \in docs : r.sampleId = data.sampleId

\* the stored document
Persist(data, oid) ==
  [oid |-> oid, sampleId |-> data.sampleId, state |-> data.state,
   district |-> data.district,
   metals |-> CastNested(data.metals, SchemaMetals),
   waterQuality |-> CastNested(data.waterQuality, SchemaWater),
   indices |-> CastNested(data.indices, SchemaIndices),
   category |-> data.category]

\* a stored document read back and handed to computeIndices
RecordSample(r) == MkSample(TRUE, TRUE, r.metals, TRUE, r.waterQuality)

-----------------------------------------------------------------------------
(* server.js: POST /api/samples, POST /api/upload and the GET routes.      *)
(* Request bodies and rows carry sampleId, latitude and longitude; rows    *)
(* have no State and District columns.                                     *)

MaxOid == 3
MaxUploadRows == 2

Place(st, d) == [state |-> st, district |-> d]

\* {metals: {uranium: 0.05}}
UraniumHigh == MkSample(TRUE, TRUE, [uranium |-> JSNum(Fin(5, 100))], FALSE, EmptyObject)

CreateBodies ==
  {[sampleId |-> "s1", place |-> Place("Goa", "North"), sample |-> EmptyMaps],
   [sampleId |-> "s1", place |-> Place("Goa", "South"), sample |-> UraniumHigh],
   [sampleId |-> "s2", place |-> Place("Kerala", "North"), sample |-> EmptyMaps]}

UploadRows ==
  {[sid |-> "s1", cells |-> EmptyObject],
   [sid |-> "s1", cells |-> [U |-> JSStr(<<"5", "0">>)]],
   [sid |-> "s2", cells |-> [pH |-> JSStr(<<"9", ".", "0">>)]]}

UploadFiles == UNION {[1..n -> UploadRows] : n \in 0..MaxUploadRows}

\* another write lands while the upload request is between its awaits
NoteWrite == IF upload.pc \in {"parsed", "insert"}
             THEN [upload EXCEPT !.interleaved = TRUE] ELSE upload

\* POST /api/samples
Create(body) ==
  /\ nextOid <= MaxOid
  /\ LET r    == computeIndicesB(body.sample)
         data == [sampleId |-> body.sampleId, state |-> body.place.state,
                  district |-> body.place.district,
                  metals |-> MetalsOf(body.sample), waterQuality |-> WaterOf(body.sample),
                  indices |-> IndicesOf(r), category |-> r.category]
     IN IF SaveFails(data, store)
        THEN /\ resp' = [NoResponse EXCEPT !.route = "POST /api/samples", !.status = 500]
             /\ UNCHANGED <<store, nextOid, upload>>
        ELSE /\ store' = store \cup {Persist(data, nextOid)}
             /\ nextOid' = nextOid + 1
             /\ upload' = NoteWrite
             /\ resp' = [NoResponse EXCEPT !.route = "POST /api/samples", !.status = 201]
  /\ UNCHANGED <<engineVars, thresholds, bulkVars, rowVars, puts>>

\* POST /api/upload without a file: 400
UploadNoFile ==
  /\ upload.pc = "idle"
  /\ upload' = [upload EXCEPT !.pc = "done", !.status = 400]
  /\ resp' = [NoResponse EXCEPT !.route = "POST /api/upload", !.status = 400]
  /\ UNCHANGED <<engineVars, thresholds, bulkVars, rowVars, store, nextOid, puts>>

\* POST /api/upload with a file: csv().fromFile resolves with the rows
UploadParse(file) ==
  /\ upload.pc = "idle"
  /\ upload' = [upload EXCEPT !.pc = "parsed", !.hasFile = TRUE, !.jsonArray = file,
                              !.before = {r.oid : r \in store}]
  /\ UNCHANGED <<engineVars, thresholds, bulkVars, rowVars, store, nextOid, resp, puts>>

\* mutant: the existing samples are kept
UploadDelete_KeepsSamples ==
  /\ upload.pc = "parsed"
  /\ upload' = [upload EXCEPT !.pc = "insert", !.index = 1]
  /\ UNCHANGED <<engineVars, thresholds, bulkVars, rowVars, store, nextOid, resp, puts>>

\* await Sample.deleteMany({})
UploadDelete ==
  /\ upload.pc = "parsed"
  /\ store' = {}
  /\ upload' = [upload EXCEPT !.pc = "insert", !.index = 1]
  /\ UNCHANGED <<engineVars, thresholds, bulkVars, rowVars, nextOid, resp, puts>>

\* sampleData of the row, indices from computeIndices({ metals })
UploadSampleData(row) ==
  LET metals == uploadMetals(row.cells)
      r      == computeIndicesB(MkSample(TRUE, TRUE, metals, FALSE, EmptyObject))
  IN [sampleId |-> row.sid, state |-> "", district |-> "",
      metals |-> metals, waterQuality |-> uploadWater(row.cells),
      indices |-> IndicesOf(r), category |-> r.category]

\* one turn of the row loop: await Sample.create(sampleData); insertedCount++
UploadInsert ==
  /\ upload.pc = "insert"
  /\ upload.index <= Len(upload.jsonArray)
  /\ nextOid <= MaxOid
  /\ LET data == UploadSampleData(upload.jsonArray[upload.index])
     IN IF SaveFails(data, store)
        THEN /\ upload' = [upload EXCEPT !.pc = "done", !.status = 500]
             /\ resp' = [NoResponse EXCEPT !.route = "POST /api/upload", !.status = 500]
             /\ UNCHANGED <<store, nextOid>>
        ELSE /\ store' = store \cup {Persist(data, nextOid)}
             /\ nextOid' = nextOid + 1
             /\ upload' = [upload EXCEPT !.index = @ + 1, !.insertedCount = @ + 1]
             /\ UNCHANGED resp
  /\ UNCHANGED <<engineVars, thresholds, bulkVars, rowVars, puts>>

\* res.json({ message, inserted: insertedCount, updated: 0 })
UploadRespond ==
  /\ upload.pc = "insert"
  /\ upload.index > Len(upload.jsonArray)
  /\ upload' = [upload EXCEPT !.pc = "done", !.status = 200]
  /\ resp' = [NoResponse EXCEPT !.route = "POST /api/upload", !.status = 200,
                                !.inserted = upload.insertedCount]
  /\ UNCHANGED <<engineVars, thresholds, bulkVars, rowVars, store, nextOid, puts>>

\* the GET routes in the order app.get registers them; a segment starting
\* with ":" is a parameter
GetRoutes ==
  << <<"api", "samples">>,
     <<"api", "samples", ":id">>,
     <<"api", "summary">>,
     <<"api", "export", "csv">>,
     <<"api", "charts", "pollution-indices">>,
     <<"api", "contamination-distribution">>,
     <<"api", "map">>,
     <<"api", "samples", "location">>,
     <<"api", "locations">>,
     <<"api", "water-quality-distribution">> >>

IsParam(seg) == seg \in {":id"}

\* the route pattern matches the request path
Matches(pattern, path) ==
  /\ Len(pattern) = Len(path)
  /\ \A i \in 1..Len(pattern) : IsParam(pattern[i]) \/ pattern[i] = path[i]

\* the first registered route that matches answers; 0 when none does
Dispatch(routes, path) ==
  IF \E i \in 1..Len(routes) : Matches(routes[i], path)
  THEN CHOOSE i \in 1..Len(routes) :
         /\ Matches(routes[i], path)
         /\ \A j \in 1..(i - 1) : ~Matches(routes[j], path)
  ELSE 0

\* .sort({ createdAt: -1 }): the _ids of the documents, newest first
RECURSIVE NewestFirst(_)
NewestFirst(docs) ==
  IF docs = {} THEN <<>>
  ELSE LET top == CHOOSE r \in docs : \A q \in docs : q.oid <= r.oid
       IN <<top.oid>> \o NewestFirst(docs \ {top})

\* Sample.find(query) with query built from req.query
FindByLocation(docs, query) ==
  {r \in docs : /\ query.state # "" => r.state = query.state
                /\ query.district # "" => r.district = query.district}

LocationPath == <<"api", "samples", "location">>

\* the GET requests sent: path and ?state=&district=
GetRequests ==
  {[path |-> <<"api", "samples">>, query |-> Place("", "")],
   [path |-> <<"api", "samples", "s1">>, query |-> Place("", "")],
   [path |-> LocationPath, query |-> Place("", "")],
   [path |-> LocationPath, query |-> Place("Goa", "")],
   [path |-> LocationPath, query |-> Place("", "North")]}

\* a GET request: dispatched to the first matching route, whose handler answers
Get(path, query) ==
  /\ LET i == Dispatch(GetRoutes, path)
         pattern == GetRoutes[i]
     IN /\ i # 0
        /\ resp' =
             IF pattern = <<"api", "samples">>
             THEN [route |-> "GET /api/samples", path |-> path, query |-> query,
                   status |-> 200, body |-> NewestFirst(store), inserted |-> 0]
             ELSE IF pattern = <<"api", "samples", ":id">>
             THEN LET found == {r \in store : r.sampleId = path[3]}
                  IN [route |-> "GET /api/samples/:id", path |-> path, query |-> query,
                      status |-> IF found = {} THEN 404 ELSE 200,
                      body |-> NewestFirst(found), inserted |-> 0]
             ELSE IF pattern = LocationPath
             THEN [route |-> "GET /api/samples/location", path |-> path, query |-> query,
                   status |-> 200, body |-> NewestFirst(FindByLocation(store, query)),
                   inserted |-> 0]
             ELSE [route |-> "GET other", path |-> path, query |-> query,
                   status |-> 200, body |-> <<>>, inserted |-> 0]
  /\ UNCHANGED <<engineVars, thresholds, bulkVars, rowVars, store, nextOid, upload, puts>>

InitServer ==
  /\ EngineIdle
  /\ thresholds = ThresholdsLiteral
  /\ BulkIdle
  /\ RowIdle
  /\ ServerIdle

NextServer ==
  \/ \E body \in CreateBodies : Create(body)
  \/ UploadNoFile
  \/ \E file \in UploadFiles : UploadParse(file)
  \/ UploadDelete
  \/ UploadInsert
  \/ UploadRespond
  \/ \E req \in GetRequests : Get(req.path, req.query)

SpecServer == InitServer /\ [][NextServer]_vars

-----------------------------------------------------------------------------
(* The earlier server file: PUT /api/samples/:id and                       *)
(* PUT /api/samples/by-sampleid/:sampleId                                  *)

\* {metals: {lead: 0.02}}
UpdateMetals ==
  [hasMetals |-> TRUE, metals |-> [lead |-> JSNum(Fin(2, 100))],
   hasWater |-> FALSE, waterQuality |-> EmptyObject]

\* {waterQuality: {pH: 9}}
UpdateWater ==
  [hasMetals |-> FALSE, metals |-> EmptyObject,
   hasWater |-> TRUE, waterQuality |-> [pH |-> JSNum(Int2Num(9))]]

\* {metals: {lead: 0.02}, waterQuality: {pH: 9}}
UpdateBoth ==
  [hasMetals |-> TRUE, metals |-> [lead |-> JSNum(Fin(2, 100))],
   hasWater |-> TRUE, waterQuality |-> [pH |-> JSNum(Int2Num(9))]]

UpdateBodies == {UpdateMetals, UpdateWater, UpdateBoth}

PutSampleIds == {"s1", "s2"}

\* $set of a nested object: the object given replaces the stored one, its
\* values cast, keys the schema does not name dropped
CastUpdate(obj, keys) == [k \in DOMAIN obj \cap keys |-> castNumber(obj[k])]

\* the update is rejected with a CastError
UpdateFails(upd, recomputed, e) ==
  \/ upd.hasMetals /\ NestedFails(upd.metals, SchemaMetals)
  \/ upd.hasWater /\ NestedFails(upd.waterQuality, SchemaWater)
  \/ recomputed /\ NestedFails(IndicesOf(e), SchemaIndices)

\* the document after findByIdAndUpdate / findOneAndUpdate with updates
ApplyUpdate(r, upd, recomputed, e) ==
  [r EXCEPT !.metals = IF upd.hasMetals THEN CastUpdate(upd.metals, SchemaMetals) ELSE @,
            !.waterQuality = IF upd.hasWater THEN CastUpdate(upd.waterQuality, SchemaWater)
                             ELSE @,
            !.indices = IF recomputed THEN CastUpdate(IndicesOf(e), SchemaIndices) ELSE @,
            !.category = IF recomputed THEN e.category ELSE @]

\* PUT /api/samples/:id
PutById(oid, upd) ==
  /\ LET recomputed == upd.hasMetals
         e == computeIndicesB(MkSample(TRUE, TRUE, upd.metals, FALSE, EmptyObject))
     IN IF UpdateFails(upd, recomputed, e)
        THEN /\ resp' = [NoResponse EXCEPT !.route = "PUT /api/samples/:id", !.status = 500]
             /\ UNCHANGED store
        ELSE /\ store' = {IF r.oid = oid THEN ApplyUpdate(r, upd, recomputed, e) ELSE r :
                            r \in store}
             /\ resp' = [NoResponse EXCEPT !.route = "PUT /api/samples/:id", !.status = 200,
                                           !.body = NewestFirst({r \in store : r.oid = oid})]
  /\ UNCHANGED <<engineVars, thresholds, bulkVars, rowVars, nextOid, upload, puts>>

\* PUT /api/samples/by-sampleid/:sampleId up to the end of await Sample.findOne
PutFind(c, sid, upd) ==
  /\ puts[c].pc = "idle"
  /\ LET found == {r \in store : r.sampleId = sid}
     IN IF found = {}
        THEN /\ puts' = [puts EXCEPT ![c] = [@ EXCEPT !.pc = "done", !.sampleId = sid,
                                                      !.updates = upd, !.status = 404]]
             /\ resp' = [NoResponse EXCEPT !.route = "PUT /api/samples/by-sampleid/:sampleId",
                                           !.status = 404]
        ELSE /\ puts' = [puts EXCEPT ![c] = [@ EXCEPT !.pc = "found", !.sampleId = sid,
                                                      !.updates = upd,
                                                      !.existingSample = CHOOSE r \in found : TRUE]]
             /\ UNCHANGED resp
  /\ UNCHANGED <<engineVars, thresholds, bulkVars, rowVars, store, nextOid, upload>>

\* the indices the handler computes from the body and the document it read
PutIndices(p) ==
  computeIndicesB(MkSample(TRUE, TRUE,
                           IF p.updates.hasMetals THEN p.updates.metals
                           ELSE p.existingSample.metals,
                           TRUE,
                           IF p.updates.hasWater THEN p.updates.waterQuality
                           ELSE p.existingSample.waterQuality))

\* the rest of the handler: recompute, await Sample.findOneAndUpdate, respond
PutUpdate(c) ==
  /\ puts[c].pc = "found"
  /\ LET p == puts[c]
         recomputed == p.updates.hasMetals \/ p.updates.hasWater
         e == PutIndices(p)
     IN IF UpdateFails(p.updates, recomputed, e)
        THEN /\ puts' = [puts EXCEPT ![c] = [@ EXCEPT !.pc = "done", !.status = 500]]
             /\ resp' = [NoResponse EXCEPT !.route = "PUT /api/samples/by-sampleid/:sampleId",
                                           !.status = 500]
             /\ UNCHANGED store
        ELSE /\ store' = {IF r.sampleId = p.sampleId
                          THEN ApplyUpdate(r, p.updates, recomputed, e) ELSE r : r \in store}
             /\ puts' = [puts EXCEPT ![c] = [@ EXCEPT !.pc = "done", !.status = 200]]
             /\ resp' = [NoResponse EXCEPT !.route = "PUT /api/samples/by-sampleid/:sampleId",
                                           !.status = 200]
  /\ UNCHANGED <<engineVars, thresholds, bulkVars, rowVars, nextOid, upload>>

\* the two update endpoints, one request at a time on the by-sampleid one
NextUpdate ==
  \/ \E body \in CreateBodies : Create(body)
  \/ \E oid \in 1..MaxOid : \E upd \in UpdateBodies : PutById(oid, upd)
  \/ \E sid \in PutSampleIds : \E upd \in UpdateBodies : PutFind(1, sid, upd)
  \/ PutUpdate(1)

SpecUpdate == InitServer /\ [][NextUpdate]_vars

\* the by-sampleid requests alone, any two of them in flight together
NextRace ==
  \/ \E body \in CreateBodies : Create(body)
  \/ \E c \in Clients : \E sid \in PutSampleIds : \E upd \in UpdateBodies : PutFind(c, sid, upd)
  \/ \E c \in Clients : PutUpdate(c)

SpecRace == InitServer /\ [][NextRace]_vars

-----------------------------------------------------------------------------
(* Reference definitions, written from the specification *)

Categories == {"safe", "moderate", "unsafe"}

\* round3: the nearest multiple of 0.001, halves away from zero
Round3(x) ==
  IF ~IsFin(x) THEN x
  ELSE LET q == (2000 * Abs(x.n) + x.d) \div (2 * x.d)
       IN Fin(IF x.n < 0 THEN -q ELSE q, 1000)

\* numeric coercion rule: the parsed number, dflt when absent or not a number
SpecCoerce(obj, key, dflt) ==
  LET x == ToNumber(GetProp(obj, key)) IN IF IsNaN(x) THEN dflt ELSE x

\* K: the keys of metals that hold a value and are entries of the threshold table
SpecK(metals) == {k \in DOMAIN metals \cap DOMAIN THRESHOLDS : metals[k] # JSUndefined}

RECURSIVE SumRatio(_, _)
SumRatio(metals, K) ==
  IF K = {} THEN Zero
  ELSE LET k == CHOOSE x \in K : TRUE
       IN NumAdd(NumDiv(SpecCoerce(metals, k, Zero), THRESHOLDS[k]), SumRatio(metals, K \ {k}))

RECURSIVE SumConc(_, _)
SumConc(metals, K) ==
  IF K = {} THEN Zero
  ELSE LET k == CHOOSE x \in K : TRUE
       IN NumAdd(SpecCoerce(metals, k, Zero), SumConc(metals, K \ {k}))

\* the sample with metals[k] set to v
WithMetal(s, k, v) ==
  LET m == MetalsOf(s)
  IN MkSample(TRUE, TRUE, [x \in DOMAIN m \cup {k} |-> IF x = k THEN v ELSE m[x]],
              s.given /\ s.hasWater, WaterOf(s))

-----------------------------------------------------------------------------
(* Claims *)

\* C1: in both variants every call returns numeric hpi, mi and cd, none of
\* them NaN, and a category that is one of safe, moderate, unsafe.
C1_TotalNeverNaN ==
  (DoneA \/ DoneB) =>
    /\ ~IsNaN(result.hpi) /\ ~IsNaN(result.mi) /\ ~IsNaN(result.cd)
    /\ result.category \in Categories

\* C2: Variant A equals the fixed 4-metal reference for every input:
\* hpi = round3((lead+cadmium+arsenic+chromium)*100), mi = round3((lead+cadmium)*10),
\* cd = round3(arsenic*50); unsafe if hpi > 100 or mi > 20 or cd > 10, else
\* moderate if hpi > 50 or mi > 10 or cd > 5, else safe.
RefA(s) ==
  LET m   == MetalsOf(s)
      pb  == SpecCoerce(m, "lead", Zero)
      cdm == SpecCoerce(m, "cadmium", Zero)
      as  == SpecCoerce(m, "arsenic", Zero)
      cr  == SpecCoerce(m, "chromium", Zero)
      hpi == Round3(NumMul(NumAdd(pb, NumAdd(cdm, NumAdd(as, cr))), Int2Num(100)))
      mi  == Round3(NumMul(NumAdd(pb, cdm), Int2Num(10)))
      cd  == Round3(NumMul(as, Int2Num(50)))
      cat == IF NumGt(hpi, Int2Num(100)) \/ NumGt(mi, Int2Num(20)) \/ NumGt(cd, Int2Num(10))
             THEN "unsafe"
             ELSE IF NumGt(hpi, Int2Num(50)) \/ NumGt(mi, Int2Num(10)) \/ NumGt(cd, Int2Num(5))
                  THEN "moderate" ELSE "safe"
  IN [hpi |-> hpi, mi |-> mi, cd |-> cd, category |-> cat]

C2_VariantAReference == DoneA => result = RefA(sample)

\* the concrete scenario of the specification: 3.6, 0.21, 0.25, safe
C2_Witness ==
  /\ DoneA /\ sample = ScenarioA
  /\ result = [hpi |-> Fin(36, 10), mi |-> Fin(21, 100), cd |-> Fin(25, 100),
               category |-> "safe"]

\* C3: Variant B computes, over the set K of metal keys present in both the
\* input's metals and the threshold table, hpi = round3(sum (c_k/t_k)*100),
\* mi = round3((sum c_k / |K|)*10), cd = round3(sum c_k/t_k), each 0 when K is empty.
C3_VariantBFormulas ==
  DoneB =>
    LET m == MetalsOf(sample)
        K == SpecK(m)
        n == Cardinality(K)
    IN /\ result.hpi = IF n = 0 THEN Zero
                       ELSE Round3(NumMul(SumRatio(m, K), Int2Num(100)))
       /\ result.mi = IF n = 0 THEN Zero
                      ELSE Round3(NumMul(NumDiv(SumConc(m, K), Int2Num(n)), Int2Num(10)))
       /\ result.cd = IF n = 0 THEN Zero ELSE Round3(SumRatio(m, K))

\* C4: Variant B decides the category in order, first match wins: unsafe if
\* hpi > 100 or mi > 1 or cd > 3 or exceedsMetal or exceedsOther; otherwise
\* moderate if hpi > 50 or mi > 0.5 or cd > 1.5; otherwise safe.
C4_CategoryOrder ==
  DoneB =>
    LET exM == exceedsMetal(MetalsOf(sample))
        exO == exceedsOther(WaterOf(sample))
        unsafeCond == \/ NumGt(result.hpi, Int2Num(100)) \/ NumGt(result.mi, Int2Num(1))
                      \/ NumGt(result.cd, Int2Num(3)) \/ exM \/ exO
        moderateCond == \/ NumGt(result.hpi, Int2Num(50)) \/ NumGt(result.mi, Fin(1, 2))
                        \/ NumGt(result.cd, Fin(3, 2))
    IN /\ unsafeCond => result.category = "unsafe"
       /\ ~unsafeCond /\ moderateCond => result.category = "moderate"
       /\ ~unsafeCond /\ ~moderateCond => result.category = "safe"

\* indices over the moderate limits only, an exceedance flag set: unsafe
C4_Witness ==
  /\ DoneB
  /\ NumGt(result.hpi, Int2Num(50)) /\ ~NumGt(result.hpi, Int2Num(100))
  /\ ~NumGt(result.mi, Int2Num(1)) /\ ~NumGt(result.cd, Int2Num(3))
  /\ ~exceedsMetal(MetalsOf(sample)) /\ exceedsOther(WaterOf(sample))
  /\ result.category = "unsafe"

\* C5: the per-metal exceedance test of Variant B is strict: a concentration
\* equal to its threshold does not set exceedsMetal, a concentration strictly
\* greater sets it and yields category unsafe.
C5_StrictExceedance ==
  DoneB =>
    LET m == MetalsOf(sample)
        K == SpecK(m)
        over(k) == NumGt(SpecCoerce(m, k, Zero), THRESHOLDS[k])
    IN /\ \A k \in K : over(k) => exceedsMetal(m) /\ result.category = "unsafe"
       /\ (\A k \in K : ~over(k)) => ~exceedsMetal(m)

\* a single metal exactly at its threshold: no exceedance, not unsafe
C5_Witness ==
  /\ DoneB
  /\ SpecK(MetalsOf(sample)) = {"lead"}
  /\ SpecCoerce(MetalsOf(sample), "lead", Zero) = THRESHOLDS.lead
  /\ ~exceedsMetal(MetalsOf(sample))
  /\ result.category = "moderate"

\* C6: in Variant B, when the coerced scalars satisfy fluoride > 1.5*threshold.fluoride
\* or nitrate > threshold.nitrate or tds > 2*threshold.tds or pH < pH_min or
\* pH > pH_max, the category is unsafe whatever the metals are.
C6_WaterExceedanceUnsafe ==
  DoneB =>
    LET w  == WaterOf(sample)
        pH == pHOf(w)
        tds      == Coerce(w, "tds", Zero)
        fluoride == Coerce(w, "fluoride", Zero)
        nitrate  == Coerce(w, "nitrate", Zero)
    IN (\/ NumGt(NumMul(fluoride, Int2Num(2)), NumMul(THRESHOLDS.fluoride, Int2Num(3)))
        \/ NumGt(nitrate, THRESHOLDS.nitrate)
        \/ NumGt(NumDiv(tds, Int2Num(2)), THRESHOLDS.tds)
        \/ NumLt(pH, THRESHOLDS.pH_min)
        \/ NumGt(pH, THRESHOLDS.pH_max))
       => result.category = "unsafe"

\* metals = {}, waterQuality = {pH: "9.0"}: unsafe although hpi = mi = cd = 0
C6_Witness ==
  /\ DoneB
  /\ DOMAIN MetalsOf(sample) = {}
  /\ DOMAIN WaterOf(sample) = {"pH"}
  /\ pHOf(WaterOf(sample)) = Int2Num(9)
  /\ result = [hpi |-> Zero, mi |-> Zero, cd |-> Zero, category |-> "unsafe"]

\* C7: the pH compared with pH_min/pH_max is 7 exactly when waterQuality.pH is
\* absent or does not parse to a number; a pH that parses to a number in 0..14
\* is used as parsed.
C7_pHDefault ==
  DoneB =>
    LET w == WaterOf(sample)
        parsed == ToNumber(GetProp(w, "pH"))
    IN /\ IsNaN(parsed) => pHOf(w) = Int2Num(7)
       /\ (IsFin(parsed) /\ ~NumLt(parsed, Zero) /\ ~NumGt(parsed, Int2Num(14)))
            => pHOf(w) = parsed

\* the metals of the threshold table of each variant
MetalsA == {"lead", "cadmium", "arsenic", "chromium"}
MetalsB == {"lead", "cadmium", "arsenic", "chromium", "mercury", "uranium", "iron"}

\* C8 (as stated): in each variant, for every metal of the threshold table,
\* the IndexResult is the same when the metal key is absent from metals as
\* when it is present with concentration 0.
C8_AbsentEqualsZero ==
  /\ DoneA => \A k \in MetalsA \ DOMAIN MetalsOf(sample) :
                computeIndicesA(WithMetal(sample, k, JSNum(Zero))) = result
  /\ DoneB => \A k \in MetalsB \ DOMAIN MetalsOf(sample) :
                computeIndicesB(WithMetal(sample, k, JSNum(Zero))) = result

\* C8 (amended): in Variant A the IndexResult is the same when a metal key is
\* absent as when it is present with concentration 0; in Variant B hpi and cd
\* are the same (mi divides by the number of present keys and may differ, and
\* the category with it).
C8_AbsentEqualsZeroAmended ==
  /\ DoneA => \A k \in MetalsA \ DOMAIN MetalsOf(sample) :
                computeIndicesA(WithMetal(sample, k, JSNum(Zero))) = result
  /\ DoneB => \A k \in MetalsB \ DOMAIN MetalsOf(sample) :
                LET r == computeIndicesB(WithMetal(sample, k, JSNum(Zero)))
                IN r.hpi = result.hpi /\ r.cd = result.cd

\* Variant B, a metal absent: with the key present at 0, hpi and cd stay, mi changes
C8_Witness ==
  /\ DoneB
  /\ \E k \in MetalsB \ DOMAIN MetalsOf(sample) :
       LET r == computeIndicesB(WithMetal(sample, k, JSNum(Zero)))
       IN /\ r.hpi = result.hpi /\ r.cd = result.cd /\ NumGt(result.hpi, Zero)
          /\ r.mi # result.mi /\ r.category # result.category

UnknownKeys == {"zinc", "toString", "constructor"}
UnknownValues == {JSNum(Int2Num(5)), StrAbc}

\* C9: in Variant B a key of metals that is not a parameter of the threshold
\* table is ignored: adding it, with any value, leaves hpi, mi, cd and
\* category unchanged.
C9_UnknownKeysIgnored ==
  DoneB => \A k \in UnknownKeys \ DOMAIN MetalsOf(sample) : \A v \in UnknownValues :
             computeIndicesB(WithMetal(sample, k, v)) = result

\* the numeric coercion rule applied to the water-quality scalars, none out of bounds
WaterWithinBounds(w) ==
  LET pH       == SpecCoerce(w, "pH", Int2Num(7))
      tds      == SpecCoerce(w, "tds", Zero)
      fluoride == SpecCoerce(w, "fluoride", Zero)
      nitrate  == SpecCoerce(w, "nitrate", Zero)
  IN ~(\/ NumGt(NumMul(fluoride, Int2Num(2)), NumMul(THRESHOLDS.fluoride, Int2Num(3)))
       \/ NumGt(nitrate, THRESHOLDS.nitrate)
       \/ NumGt(NumDiv(tds, Int2Num(2)), THRESHOLDS.tds)
       \/ NumLt(pH, THRESHOLDS.pH_min)
       \/ NumGt(pH, THRESHOLDS.pH_max))

\* C10: in Variant B, if metals has no key that is also in the threshold table
\* and the water-quality values are within bounds or absent, then
\* hpi = mi = cd = 0 and category = safe.
C10_EmptySetSafe ==
  (/\ DoneB
   /\ DOMAIN MetalsOf(sample) \cap DOMAIN THRESHOLDS = {}
   /\ WaterWithinBounds(WaterOf(sample)))
  => result = [hpi |-> Zero, mi |-> Zero, cd |-> Zero, category |-> "safe"]

-----------------------------------------------------------------------------
(* Claims C11 .. C14 *)

\* C11: computeIndices is deterministic and has no hidden state: every row of
\* a bulk gets the IndexResult it gets when processed alone, whatever the
\* order of the rows and whatever calls happen in between; equal rows get
\* equal results.
C11_OrderIndependent ==
  /\ \A i \in DOMAIN bulkRows : bulkOut[i] # NoResult => bulkOut[i] = bulkAlone[i]
  /\ \A i, j \in DOMAIN bulkRows :
       (bulkOut[i] # NoResult /\ bulkOut[j] # NoResult /\ bulkRows[i] = bulkRows[j])
         => bulkOut[i] = bulkOut[j]

\* two different rows, both processed, a call of another caller made as well
C11_Witness ==
  /\ Len(bulkRows) = 2
  /\ bulkRows[1] = ScenarioB /\ bulkRows[2] = EmptyMaps
  /\ bulkOut[1].category = "unsafe" /\ bulkOut[2].category = "safe"
  /\ variant = "B" /\ sample = ScenarioA

\* C12: no invocation changes the threshold table or the sample passed to it;
\* the table has the same contents in every reachable state.
C12_NoSideEffects ==
  /\ [](thresholds = ThresholdsLiteral)
  /\ [][sample' = sample /\ thresholds' = thresholds]_vars

\* after a call of Variant B on a sample with metals: table and sample as before
C12_Witness ==
  /\ DoneB
  /\ sample = ScenarioB
  /\ result.category = "unsafe"
  /\ thresholds = ThresholdsLiteral

\* the value of each index before Number(x.toFixed(3)) is applied
UnroundedA(s) ==
  LET m == MetalsOf(s)
      pb  == Coerce(m, "lead", Zero)
      cdm == Coerce(m, "cadmium", Zero)
      as  == Coerce(m, "arsenic", Zero)
      cr  == Coerce(m, "chromium", Zero)
  IN [hpi |-> NumMul(NumAdd(NumAdd(NumAdd(pb, cdm), as), cr), Int2Num(100)),
      mi  |-> NumMul(NumAdd(pb, cdm), Int2Num(10)),
      cd  |-> NumMul(as, Int2Num(50))]

UnroundedB(s) ==
  LET m == MetalsOf(s)
      keys == metalKeys(m)
      len  == Cardinality(keys)
  IN [hpi |-> IF len = 0 THEN Zero ELSE hpiSum(m, keys),
      mi  |-> IF len = 0 THEN Zero
              ELSE NumMul(NumDiv(miSum(m, keys), Int2Num(len)), Int2Num(10)),
      cd  |-> IF len = 0 THEN Zero ELSE cdSum(m, keys)]

\* x is an integer multiple of 0.001 within 0.0005 of raw
RoundedTo3(x, raw) ==
  /\ IsFin(x) /\ IsFin(raw)
  /\ 1000 % x.d = 0
  /\ LET diff == NumAdd(x, NumMul(Int2Num(-1), raw))
     IN ~NumGt(diff, Fin(1, 2000)) /\ ~NumLt(diff, Fin(-1, 2000))

\* C13: in both variants each of hpi, mi and cd is an integer multiple of
\* 0.001 and differs from the unrounded formula value by at most 0.0005.
C13_RoundedTo3Places ==
  (DoneA \/ DoneB) =>
    LET raw == IF DoneA THEN UnroundedA(sample) ELSE UnroundedB(sample)
    IN /\ RoundedTo3(result.hpi, raw.hpi)
       /\ RoundedTo3(result.mi, raw.mi)
       /\ RoundedTo3(result.cd, raw.cd)

\* a field of the four metals that is absent, non-numeric or not negative
NonNegativeInput(m, k) ==
  LET x == ToNumber(GetProp(m, k)) IN IsNaN(x) \/ ~NumLt(x, Zero)

\* C14: in Variant A, when all four metal concentrations are non-negative (or
\* absent or non-numeric), hpi, mi and cd are all >= 0.
C14_VariantANonNegative ==
  (DoneA /\ \A k \in {"lead", "cadmium", "arsenic", "chromium"} :
              NonNegativeInput(MetalsOf(sample), k))
  => /\ ~IsNaN(result.hpi) /\ ~NumLt(result.hpi, Zero)
     /\ ~IsNaN(result.mi) /\ ~NumLt(result.mi, Zero)
     /\ ~IsNaN(result.cd) /\ ~NumLt(result.cd, Zero)

\* lead and arsenic positive, the others absent: all three indices positive
C14_Witness ==
  /\ DoneA
  /\ DOMAIN MetalsOf(sample) = {"lead", "arsenic"}
  /\ \A k \in {"lead", "arsenic"} : NumGt(ToNumber(MetalsOf(sample)[k]), Zero)
  /\ NumGt(result.hpi, Zero) /\ NumGt(result.mi, Zero) /\ NumGt(result.cd, Zero)

-----------------------------------------------------------------------------
(* Claim C15 *)

\* the reading of a cell as the claim has it: the parsed number (ppb divided
\* by 1000), 0 for a negative or non-numeric reading
CleanReading(row, col, divisor) ==
  LET v == GetProp(row, col)
      x == IF v = JSUndefined \/ v = Dash THEN NaN ELSE parseFloat(v)
  IN IF IsNaN(x) \/ NumLt(x, Zero) THEN Zero ELSE NumDiv(x, Int2Num(divisor))

\* every value of the mapping is a number >= 0
AllNonNegativeNumbers(m) ==
  \A k \in DOMAIN m : m[k].t = "number" /\ ~IsNaN(m[k].num) /\ ~NumLt(m[k].num, Zero)

\* {metals: {lead: -0.01}} handed to the engine directly
NegativeLead == MkSample(TRUE, TRUE, [lead |-> JSNum(Fin(-1, 100))], FALSE, EmptyObject)

\* C15: for every CSV row, every metal concentration in the metals mapping
\* handed to computeIndices (and put into sampleData) is a number >= 0, with
\* negative or non-numeric readings replaced by 0; the engine itself does not
\* clamp negative values.
C15_UploadClamps ==
  RowBuilt =>
    /\ AllNonNegativeNumbers(MetalsOf(sample))
    /\ rowData.metals = MetalsOf(sample)
    /\ \A k \in {"arsenic", "uranium", "iron"} :
         rowData.metals[k].num =
           CleanReading(csvRow, CASE k = "arsenic" -> "As" [] k = "uranium" -> "U"
                                  [] OTHER -> "Fe",
                        IF k = "iron" THEN 1 ELSE 1000)
    /\ pc = "built" => rowData.metals.lead.num = CleanReading(csvRow, "Pb", 1)
    /\ NumLt(computeIndicesB(NegativeLead).hpi, Zero)

\* a row with a negative arsenic reading and a non-numeric iron reading: both 0
C15_Witness ==
  /\ pc = "built"
  /\ GetProp(csvRow, "As") = JSStr(<<"-", "5">>)
  /\ GetProp(csvRow, "Fe") = StrAbc
  /\ rowData.metals.arsenic = JSNum(Zero)
  /\ rowData.metals.iron = JSNum(Zero)
  /\ result.category = "safe"

-----------------------------------------------------------------------------
(* Claims C17, C18, C19: server.js *)

\* C17: after any sequence of POST /api/samples and POST /api/upload
\* requests, every record in the store has indices and category equal to
\* computeIndices applied to that record's persisted metals and waterQuality.
C17_PersistedConsistent ==
  \A r \in store :
    LET e == computeIndicesB(RecordSample(r))
    IN r.indices = IndicesOf(e) /\ r.category = e.category

\* the stored samples matching the given state and/or district (all of them
\* when neither is given)
SpecByLocation(docs, query) ==
  {r \in docs : /\ query.state = "" \/ r.state = query.state
                /\ query.district = "" \/ r.district = query.district}

\* C18: a GET /api/samples/location request is answered by the location
\* handler with exactly the stored samples matching the state and/or district
\* given (all samples when neither is given), newest first.
C18_LocationAnswered ==
  [][(resp' # resp /\ resp'.path = LocationPath) =>
       /\ resp'.route = "GET /api/samples/location"
       /\ resp'.body = NewestFirst(SpecByLocation(store, resp'.query))]_vars

\* the store holds exactly one record per row of the file, none of them from
\* before the upload, and the reported count is the number of rows
Replaced(docs, up) ==
  /\ Cardinality(docs) = Len(up.jsonArray)
  /\ \A i \in 1..Len(up.jsonArray) :
       \E r \in docs :
         /\ r.sampleId = up.jsonArray[i].sid
         /\ r.metals = CastNested(uploadMetals(up.jsonArray[i].cells), SchemaMetals)
         /\ \A q \in docs : q.sampleId = r.sampleId => q = r
  /\ \A r \in docs : r.oid \notin up.before
  /\ up.insertedCount = Len(up.jsonArray)

\* C19: the existing samples are deleted only after a file was received and
\* parsed; and when POST /api/upload responds with success and no other write
\* was interleaved, the store holds exactly one record per row of the file, no
\* record from before the upload, and the reported inserted count is the
\* number of rows.
C19_UploadReplaces ==
  [][/\ (\E r \in store : r \notin store') => (upload.hasFile /\ upload.pc = "parsed")
     /\ (upload.status # 200 /\ upload'.status = 200 /\ ~upload'.interleaved)
          => Replaced(store', upload')]_vars

\* a two-row file uploaded over a store that held a sample: two new records
C19_Witness ==
  /\ upload.status = 200
  /\ ~upload.interleaved
  /\ Len(upload.jsonArray) = 2
  /\ upload.before = {1}
  /\ upload.insertedCount = 2
  /\ {r.oid : r \in store} = {2, 3}
  /\ resp.route = "POST /api/upload"
  /\ resp.inserted = 2

-----------------------------------------------------------------------------
(* Claims C16, C20: the update endpoints *)

\* the record's indices and category are those of computeIndices on its own
\* metals and waterQuality
Consistent(r) ==
  LET e == computeIndicesB(RecordSample(r))
  IN /\ \A k \in SchemaIndices : GetProp(r.indices, k) = IndicesOf(e)[k]
     /\ r.category = e.category

\* C16: for both update endpoints, an update that changes a sample's metals
\* or waterQuality leaves it with indices and category equal to
\* computeIndices applied to its metals and waterQuality as they are after
\* the update.
C16_UpdateRecomputes ==
  [][\A r \in store : \A q \in store' :
       (q.oid = r.oid /\ (q.metals # r.metals \/ q.waterQuality # r.waterQuality))
         => Consistent(q)]_vars

\* C20: once two PUT /api/samples/by-sampleid/:sampleId requests on the same
\* sample have both completed with success, in whatever interleaving, the
\* stored indices and category equal computeIndices applied to the finally
\* stored metals and waterQuality.
C20_ConcurrentConsistent ==
  (/\ \A c \in Clients : puts[c].pc = "done" /\ puts[c].status = 200
   /\ \A c, d \in Clients : puts[c].sampleId = puts[d].sampleId)
    => \A r \in store : r.sampleId = puts[1].sampleId => Consistent(r)

====
